---- MODULE Spec2Model ----
(***************************************************************************)
(* django-request-log: RequestParser, AbstractRequestLog.parse_request /   *)
(* save and RequestLogManager.create_log (request_log/models.py).          *)
(*                                                                         *)
(* Python values are modelled as follows.  A str that the code takes apart *)
(* (the X_FORWARDED_FOR header, REMOTE_ADDR) is a sequence of one-character*)
(* strings, so "" is <<>>.  A str that the code only copies is a TLA+      *)
(* string.  A dict, and an object's attribute set, is a function whose     *)
(* DOMAIN holds the keys (attributes) that are present.  A call either     *)
(* returns a value or raises: Return(v) / Raise(e).                        *)
(***************************************************************************)
EXTENDS Naturals, Sequences, FiniteSets

VARIABLES
    request,    \* the HttpRequest in hand (a function: attribute -> value)
    called,     \* SpecParser: the RequestParser operation applied last
    outcome,    \* SpecParser: what that operation returned or raised
    pc,         \* Spec: position inside create_log ("idle" between calls)
    args,       \* Spec: create_log's category and label, as the caller gave them
    log,        \* Spec: the RequestLog instance create_log is working on
    result,     \* Spec: what the last finished create_log returned or raised
    db,         \* Spec: the request_log table, rows in insertion order
    clock,      \* Spec: django.utils.timezone.now()
    callTime,   \* Spec: the value of now() when create_log was entered
    writes,     \* Spec: the storage writes the current create_log attempted
    before,     \* Spec: the table as it was when create_log was entered
    origin,     \* Spec: for each row, the call (request, arguments) it is from
    returned    \* Spec: number of create_log calls that returned so far

vars == <<request, called, outcome, pc, args, log, result, db, clock,
          callTime, writes, before, origin, returned>>

(* ------------------------------ bounds -------------------------------- *)

\* longest X_FORWARDED_FOR header value, in characters
MaxLen == 3
\* most rows the table holds
MaxLogs == 2
\* last instant of the clock
MaxClock == 2

(* --------------------------- Python values ---------------------------- *)

None == "None"
AnonymousUser == "AnonymousUser"
Users == {"alice", "bob"}

Return(v) == [kind |-> "return", value |-> v]
Raise(e) == [kind |-> "raise", exc |-> e]

\* dict.get(key, default)
Get(d, key, default) == IF key \in DOMAIN d THEN d[key] ELSE default

\* getattr(obj, name): AttributeError when the object has no such attribute
GetAttr(obj, name) ==
    IF name \in DOMAIN obj THEN Return(obj[name]) ELSE Raise("AttributeError")

\* User.is_authenticated is True, AnonymousUser.is_authenticated is False
is_authenticated(u) == u # AnonymousUser

\* bool(x) of a str held as a character sequence
Truthy(s) == Len(s) > 0

\* x or "" for an Optional[str] held as a TLA+ string
OrEmpty(x) == IF x = None \/ x = "" THEN "" ELSE x

Chars == {"1", "2", ",", " "}
StrsUpTo(n) == UNION {[1..k -> Chars] : k \in 0..n}

Min(S) == CHOOSE m \in S : \A k \in S : m <= k

\* str.split(","): the entries between the commas, in order
RECURSIVE Split(_)
Split(s) ==
    LET commas == {i \in 1..Len(s) : s[i] = ","}
    IN  IF commas = {} THEN <<s>>
        ELSE <<SubSeq(s, 1, Min(commas) - 1)>>
                 \o Split(SubSeq(s, Min(commas) + 1, Len(s)))

(* ----------------------------- requests ------------------------------- *)

\* An optional key or attribute is given as a set: {} when it is missing,
\* {v} when it is present with value v.
The(opt) == CHOOSE v \in opt : TRUE

\* request.META, from the three keys the code reads
MkMETA(xff, addr, qs) ==
    LET opt(k) == CASE k = "X_FORWARDED_FOR" -> xff
                    [] k = "REMOTE_ADDR" -> addr
                    [] k = "QUERY_STRING" -> qs
    IN  [k \in {kk \in {"X_FORWARDED_FOR", "REMOTE_ADDR", "QUERY_STRING"} :
                    opt(kk) # {}} |-> The(opt(k))]

\* request.headers, from the two headers the code reads
MkHeaders(ua, ref) ==
    LET opt(k) == IF k = "User-Agent" THEN ua ELSE ref
    IN  [k \in {kk \in {"User-Agent", "Referer"} : opt(kk) # {}} |-> The(opt(k))]

\* An HttpRequest.  Middleware adds the attributes user and session, so a
\* request may lack them; a session's session_key may be None.
MkRequest(meta, headers, method, path, user, session) ==
    [a \in {"META", "headers", "method", "path"}
            \cup (IF user = {} THEN {} ELSE {"user"})
            \cup (IF session = {} THEN {} ELSE {"session"})
        |-> CASE a = "META" -> meta
              [] a = "headers" -> headers
              [] a = "method" -> method
              [] a = "path" -> path
              [] a = "user" -> The(user)
              [] a = "session" -> [session_key |-> The(session)]]

Opt(S) == {{}} \cup {{v} : v \in S}

\* The requests the RequestParser operations are applied to
Requests ==
    {MkRequest(MkMETA(xff, addr, qs), MkHeaders(ua, ref), method, "/foo/bar",
               user, session) :
        xff \in Opt(StrsUpTo(MaxLen)),
        addr \in Opt({<<"9">>}),
        qs \in Opt({"a=b"}),
        ua \in Opt({"Mozilla/5.0"}),
        ref \in Opt({"google.com"}),
        method \in {"GET", "POST"},
        user \in Opt({AnonymousUser} \cup Users),
        session \in Opt({None, "fake_session"})}

(* --------------------------- RequestParser ---------------------------- *)

\* Mutant: request.META["REMOTE_ADDR"] in place of .get("REMOTE_ADDR", "")
parse_remote_addr_KeyError(r) ==
    LET x_forwarded_for == Get(r.META, "X_FORWARDED_FOR", <<>>)
    IN  IF Truthy(x_forwarded_for)
        THEN Return(Split(x_forwarded_for)[1])
        ELSE IF "REMOTE_ADDR" \in DOMAIN r.META
        THEN Return(r.META["REMOTE_ADDR"])
        ELSE Raise("KeyError")

\* Mutant: split(",")[-1], the last entry of the chain
parse_remote_addr_last(r) ==
    LET x_forwarded_for == Get(r.META, "X_FORWARDED_FOR", <<>>)
    IN  IF Truthy(x_forwarded_for)
        THEN Return(Split(x_forwarded_for)[Len(Split(x_forwarded_for))])
        ELSE Return(Get(r.META, "REMOTE_ADDR", <<>>))

parse_remote_addr(r) ==
    LET x_forwarded_for == Get(r.META, "X_FORWARDED_FOR", <<>>)
    IN  IF Truthy(x_forwarded_for)
        THEN Return(Split(x_forwarded_for)[1])
        ELSE Return(Get(r.META, "REMOTE_ADDR", <<>>))

user(r) ==
    LET u == GetAttr(r, "user")
    IN  IF u.kind = "raise" THEN u
        ELSE IF is_authenticated(u.value) THEN Return(u.value)
        ELSE Return(None)

session_key(r) ==
    LET s == GetAttr(r, "session")
    IN  IF s.kind = "raise" THEN s
        ELSE Return(OrEmpty(s.value.session_key))

http_method(r) == Return(r.method)

request_path(r) == Return(r.path)

query_string(r) == Return(Get(r.META, "QUERY_STRING", ""))

http_user_agent(r) == Return(Get(r.headers, "User-Agent", ""))

\* Mutant: headers.get("Referer"), whose default is None
http_referer_None(r) == Return(Get(r.headers, "Referer", None))

http_referer(r) == Return(Get(r.headers, "Referer", ""))

remote_addr(r) == parse_remote_addr(r)

\* parser.<name>: the RequestParser property of that name, read on request r
Apply(op, r) ==
    CASE op = "user" -> user(r)
      [] op = "session_key" -> session_key(r)
      [] op = "http_method" -> http_method(r)
      [] op = "request_path" -> request_path(r)
      [] op = "query_string" -> query_string(r)
      [] op = "http_user_agent" -> http_user_agent(r)
      [] op = "http_referer" -> http_referer(r)
      [] op = "remote_addr" -> remote_addr(r)

(* ------------------ AbstractRequestLog / RequestLog ------------------- *)

\* RequestLog(category=..., label=...): every other field takes its default;
\* timestamp's default is tz_now, called here.  id = 0 stands for id = None
\* (the table assigns ids from 1).
NewRequestLog(category, label, now) ==
    [id |-> 0,
     user |-> None,
     session_key |-> "",
     http_method |-> "",
     http_user_agent |-> "",
     http_referer |-> "",
     request_path |-> "",
     query_string |-> "",
     remote_addr |-> <<>>,
     timestamp |-> now,
     category |-> category,
     label |-> label]

ParserOrder ==
    <<"user", "session_key", "http_method", "request_path", "query_string",
      "http_user_agent", "http_referer", "remote_addr">>

\* Mutant: the user agent and the referer assigned to each other's field
parse_request_swapped(l, r) ==
    LET raising == {i \in 1..Len(ParserOrder) :
                        Apply(ParserOrder[i], r).kind = "raise"}
    IN  IF raising # {} THEN Apply(ParserOrder[Min(raising)], r)
        ELSE Return([l EXCEPT
                !.user = user(r).value,
                !.session_key = session_key(r).value,
                !.http_method = http_method(r).value,
                !.request_path = request_path(r).value,
                !.query_string = query_string(r).value,
                !.http_user_agent = http_referer(r).value,
                !.http_referer = http_user_agent(r).value,
                !.remote_addr = remote_addr(r).value])

\* AbstractRequestLog.parse_request: the eight assignments in order; the first
\* property that raises ends it.
parse_request(l, r) ==
    LET raising == {i \in 1..Len(ParserOrder) :
                        Apply(ParserOrder[i], r).kind = "raise"}
    IN  IF raising # {} THEN Apply(ParserOrder[Min(raising)], r)
        ELSE Return([l EXCEPT
                !.user = user(r).value,
                !.session_key = session_key(r).value,
                !.http_method = http_method(r).value,
                !.request_path = request_path(r).value,
                !.query_string = query_string(r).value,
                !.http_user_agent = http_user_agent(r).value,
                !.http_referer = http_referer(r).value,
                !.remote_addr = remote_addr(r).value])

\* What the storage write can raise
StorageErrors == {"IntegrityError", "OperationalError"}

\* Mutant: timestamp declared auto_now, so every write stamps it
save_auto_now(l, table, fault, now) ==
    IF fault # "ok" THEN [db |-> table, out |-> Raise(fault)]
    ELSE IF l.id = 0
    THEN LET row == [l EXCEPT !.id = Len(table) + 1, !.timestamp = now]
         IN  [db |-> Append(table, row), out |-> Return(row)]
    ELSE LET row == [l EXCEPT !.timestamp = now]
         IN  [db |-> [i \in 1..Len(table) |->
                        IF table[i].id = l.id THEN row ELSE table[i]],
              out |-> Return(row)]

\* Mutant: get_or_create, an equal row already stored is returned instead
save_dedup(l, table, fault, now) ==
    LET same == {i \in 1..Len(table) : [table[i] EXCEPT !.id = 0] = l}
    IN  IF fault # "ok" THEN [db |-> table, out |-> Raise(fault)]
        ELSE IF l.id = 0 /\ same # {}
        THEN [db |-> table, out |-> Return(table[Min(same)])]
        ELSE IF l.id = 0
        THEN LET row == [l EXCEPT !.id = Len(table) + 1]
             IN  [db |-> Append(table, row), out |-> Return(row)]
        ELSE [db |-> [i \in 1..Len(table) |->
                        IF table[i].id = l.id THEN l ELSE table[i]],
              out |-> Return(l)]

\* AbstractRequestLog.save: Model.save() writes the instance's fields as they
\* are in one atomic statement, an INSERT that assigns the id when the
\* instance has none and an UPDATE of its row otherwise, and returns the
\* instance; a storage error is raised as it is and writes nothing.  now is
\* the time of the write, which no field takes (none is auto_now).
save(l, table, fault, now) ==
    IF fault # "ok" THEN [db |-> table, out |-> Raise(fault)]
    ELSE IF l.id = 0
    THEN LET row == [l EXCEPT !.id = Len(table) + 1]
         IN  [db |-> Append(table, row), out |-> Return(row)]
    ELSE [db |-> [i \in 1..Len(table) |->
                    IF table[i].id = l.id THEN l ELSE table[i]],
          out |-> Return(l)]

(* ------------------- SpecParser: the parser alone --------------------- *)

Pending == [kind |-> "pending"]

\* create_log has not been called: the state SpecParser stays in
NotLogging ==
    /\ pc = "idle"
    /\ args = [category |-> {}, label |-> {}]
    /\ log = [id |-> 0]
    /\ result = Pending
    /\ db = <<>>
    /\ clock = 0
    /\ callTime = 0
    /\ writes = <<>>
    /\ before = <<>>
    /\ origin = <<>>
    /\ returned = 0

loggingVars == <<pc, args, log, result, db, clock, callTime, writes, before,
                 origin, returned>>

InitParser ==
    /\ request \in Requests
    /\ called = "none"
    /\ outcome = Pending
    /\ NotLogging

CallUser ==
    /\ called' = "user"
    /\ outcome' = user(request)
    /\ UNCHANGED <<request, loggingVars>>

CallSessionKey ==
    /\ called' = "session_key"
    /\ outcome' = session_key(request)
    /\ UNCHANGED <<request, loggingVars>>

CallHttpMethod ==
    /\ called' = "http_method"
    /\ outcome' = http_method(request)
    /\ UNCHANGED <<request, loggingVars>>

CallRequestPath ==
    /\ called' = "request_path"
    /\ outcome' = request_path(request)
    /\ UNCHANGED <<request, loggingVars>>

CallQueryString ==
    /\ called' = "query_string"
    /\ outcome' = query_string(request)
    /\ UNCHANGED <<request, loggingVars>>

CallHttpUserAgent ==
    /\ called' = "http_user_agent"
    /\ outcome' = http_user_agent(request)
    /\ UNCHANGED <<request, loggingVars>>

CallHttpReferer ==
    /\ called' = "http_referer"
    /\ outcome' = http_referer(request)
    /\ UNCHANGED <<request, loggingVars>>

CallRemoteAddr ==
    /\ called' = "remote_addr"
    /\ outcome' = remote_addr(request)
    /\ UNCHANGED <<request, loggingVars>>

\* RequestLog().parse_request(request): a record built but not written
CallParseRequest ==
    /\ called' = "parse_request"
    /\ outcome' = parse_request(NewRequestLog("", "", clock), request)
    /\ UNCHANGED <<request, loggingVars>>

NextParser ==
    \/ CallUser
    \/ CallSessionKey
    \/ CallHttpMethod
    \/ CallRequestPath
    \/ CallQueryString
    \/ CallHttpUserAgent
    \/ CallHttpReferer
    \/ CallRemoteAddr
    \/ CallParseRequest

SpecParser == InitParser /\ [][NextParser]_vars

(* ----------------------- Spec: create_log calls ----------------------- *)

\* The requests create_log is called with: the test suite's two, an anonymous
\* one with nothing optional, and two that no auth / session middleware touched
LogRequests ==
    {MkRequest(MkMETA({}, {<<"9">>}, {"a=b"}), MkHeaders({"Mozilla/5.0"}, {}),
               "GET", "/foo/bar", {AnonymousUser}, {"fake_session"}),
     MkRequest(MkMETA({<<"1", ",", "2">>}, {<<"9">>}, {"a=b"}),
               MkHeaders({"Mozilla/5.0"}, {"google.com"}),
               "POST", "/foo/bar", {"alice"}, {"fake_session"}),
     MkRequest(MkMETA({}, {}, {}), MkHeaders({}, {}),
               "GET", "/foo/bar", {AnonymousUser}, {None}),
     MkRequest(MkMETA({}, {<<"9">>}, {}), MkHeaders({}, {}),
               "GET", "/foo/bar", {}, {"fake_session"}),
     MkRequest(MkMETA({}, {<<"9">>}, {}), MkHeaders({}, {}),
               "GET", "/foo/bar", {"alice"}, {})}

\* A keyword argument of create_log: given, or omitted and so its default ""
Default(arg) == IF arg = {} THEN "" ELSE The(arg)

Init ==
    /\ request \in LogRequests
    /\ called = "none"
    /\ outcome = Pending
    /\ NotLogging

\* create_log is entered: log = RequestLog(category=category, label=label)
CreateLog ==
    /\ pc = "idle"
    /\ Len(db) < MaxLogs
    /\ \E r \in LogRequests, category \in Opt({"foo"}), label \in Opt({"bar"}) :
        /\ request' = r
        /\ args' = [category |-> category, label |-> label]
        /\ log' = NewRequestLog(Default(category), Default(label), clock)
    /\ callTime' = clock
    /\ writes' = <<>>
    /\ before' = db
    /\ result' = Pending
    /\ pc' = "parse_request"
    /\ UNCHANGED <<called, outcome, db, clock, origin, returned>>

\* log.parse_request(request)
ParseRequest ==
    /\ pc = "parse_request"
    /\ LET o == parse_request(log, request)
       IN  IF o.kind = "raise"
           THEN /\ result' = o
                /\ pc' = "idle"
                /\ UNCHANGED log
           ELSE /\ log' = o.value
                /\ pc' = "save"
                /\ UNCHANGED result
    /\ UNCHANGED <<request, called, outcome, args, db, clock, callTime,
                   writes, before, origin, returned>>

\* Mutant: try: return log.save() / except DatabaseError: return log
Save_swallow ==
    /\ pc = "save"
    /\ \E fault \in {"ok"} \cup StorageErrors :
        LET s == save(log, db, fault, clock)
        IN  /\ db' = s.db
            /\ result' = IF s.out.kind = "return" THEN s.out ELSE Return(log)
            /\ writes' = Append(writes, [at |-> clock, fault |-> fault])
            /\ IF s.out.kind = "return"
               THEN /\ log' = s.out.value
                    /\ returned' = returned + 1
                    /\ origin' = IF Len(s.db) > Len(db)
                                 THEN Append(origin,
                                             [request |-> request, args |-> args])
                                 ELSE origin
               ELSE UNCHANGED <<log, returned, origin>>
    /\ pc' = "idle"
    /\ UNCHANGED <<request, called, outcome, args, clock, callTime, before>>

\* return log.save(): the record when the write succeeds, else its exception
Save ==
    /\ pc = "save"
    /\ \E fault \in {"ok"} \cup StorageErrors :
        LET s == save(log, db, fault, clock)
        IN  /\ db' = s.db
            /\ result' = s.out
            /\ writes' = Append(writes, [at |-> clock, fault |-> fault])
            /\ IF s.out.kind = "return"
               THEN /\ log' = s.out.value
                    /\ returned' = returned + 1
                    /\ origin' = IF Len(s.db) > Len(db)
                                 THEN Append(origin,
                                             [request |-> request, args |-> args])
                                 ELSE origin
               ELSE UNCHANGED <<log, returned, origin>>
    /\ pc' = "idle"
    /\ UNCHANGED <<request, called, outcome, args, clock, callTime, before>>

\* The caller writes the record it was given once more: log.save()
SaveAgain ==
    /\ pc = "idle"
    /\ result.kind = "return"
    /\ \E fault \in {"ok"} \cup StorageErrors :
        db' = save(result.value, db, fault, clock).db
    /\ UNCHANGED <<request, called, outcome, pc, args, log, result, clock,
                   callTime, writes, before, origin, returned>>

\* Time passes
Tick ==
    /\ clock < MaxClock
    /\ clock' = clock + 1
    /\ UNCHANGED <<request, called, outcome, pc, args, log, result, db,
                   callTime, writes, before, origin, returned>>

Next ==
    \/ CreateLog
    \/ ParseRequest
    \/ Save
    \/ SaveAgain
    \/ Tick

Spec == Init /\ [][Next]_vars

(* ------------------------------ claims -------------------------------- *)

\* C1: when X_FORWARDED_FOR is absent or the empty string, parse_remote_addr
\* returns REMOTE_ADDR, and returns "" without raising when REMOTE_ADDR is
\* absent as well.
C1_FallsBackToRemoteAddr ==
    (/\ called = "remote_addr"
     /\ \/ "X_FORWARDED_FOR" \notin DOMAIN request.META
        \/ request.META["X_FORWARDED_FOR"] = <<>>)
        => outcome = Return(IF "REMOTE_ADDR" \in DOMAIN request.META
                            THEN request.META["REMOTE_ADDR"] ELSE <<>>)

\* An empty header in front of a direct address
C1_Witness ==
    /\ called = "remote_addr"
    /\ "X_FORWARDED_FOR" \in DOMAIN request.META
    /\ request.META["X_FORWARDED_FOR"] = <<>>
    /\ "REMOTE_ADDR" \in DOMAIN request.META
    /\ outcome = Return(<<"9">>)

\* C2: when X_FORWARDED_FOR holds one or more comma-separated entries,
\* parse_remote_addr returns exactly the first one (the header up to its first
\* comma), whatever REMOTE_ADDR is and however many entries follow.
C2_ReturnsFirstEntry ==
    (/\ called = "remote_addr"
     /\ "X_FORWARDED_FOR" \in DOMAIN request.META
     /\ request.META["X_FORWARDED_FOR"] # <<>>)
        => LET h == request.META["X_FORWARDED_FOR"]
               e == outcome.value
           IN  /\ outcome.kind = "return"
               /\ Len(e) <= Len(h)
               /\ \A i \in 1..Len(e) : e[i] = h[i] /\ e[i] # ","
               /\ Len(e) < Len(h) => h[Len(e) + 1] = ","

\* A chain of two entries in front of a direct address
C2_Witness ==
    /\ called = "remote_addr"
    /\ "REMOTE_ADDR" \in DOMAIN request.META
    /\ "X_FORWARDED_FOR" \in DOMAIN request.META
    /\ request.META["X_FORWARDED_FOR"] = <<"1", ",", "2">>
    /\ outcome = Return(<<"1">>)

\* C3: a header of whitespace only is treated like an empty one, so that
\* parse_remote_addr returns REMOTE_ADDR (or ""), and a first entry that is
\* returned is returned stripped of surrounding whitespace.
C3_WhitespaceFallsThroughAndEntryIsTrimmed ==
    called = "remote_addr"
        => LET h == Get(request.META, "X_FORWARDED_FOR", <<>>)
               first == Split(h)[1]
               inked == {i \in 1..Len(first) : first[i] # " "}
               stripped == IF inked = {} THEN <<>>
                           ELSE SubSeq(first, Min(inked),
                                       CHOOSE m \in inked : \A k \in inked : k <= m)
           IN  IF \A i \in 1..Len(h) : h[i] = " "
               THEN outcome = Return(Get(request.META, "REMOTE_ADDR", <<>>))
               ELSE outcome = Return(stripped)

\* C4: user returns the request's own user when it is authenticated, and None
\* without raising for an anonymous request and for one that has no user.
C4_UserNeverRaises ==
    called = "user"
        => outcome = Return(IF "user" \in DOMAIN request /\ request.user \in Users
                            THEN request.user ELSE None)

\* C5: session_key returns the session's key when there is one, and "" without
\* raising when the key is unset and when the request has no session.
C5_SessionKeyNeverRaises ==
    called = "session_key"
        => outcome = Return(IF /\ "session" \in DOMAIN request
                               /\ request.session.session_key # None
                            THEN request.session.session_key ELSE "")

\* C6: for a request without User-Agent, without Referer or without a query
\* string the resolver of that field returns "" (not None, no exception), and
\* every field but user of a record that parse_request built holds a value.
C6_MissingHeaderGivesEmptyString ==
    /\ (called = "http_user_agent" /\ "User-Agent" \notin DOMAIN request.headers)
        => outcome = Return("")
    /\ (called = "http_referer" /\ "Referer" \notin DOMAIN request.headers)
        => outcome = Return("")
    /\ (called = "query_string" /\ "QUERY_STRING" \notin DOMAIN request.META)
        => outcome = Return("")
    /\ (called = "parse_request" /\ outcome.kind = "return")
        => /\ \A f \in {"session_key", "http_method", "request_path",
                        "query_string", "http_user_agent", "http_referer",
                        "category", "label"} : outcome.value[f] # None
           /\ outcome.value.timestamp \in Nat
           /\ DOMAIN outcome.value.remote_addr
                  = 1..Len(outcome.value.remote_addr)

\* A record built from a request that has none of the three
C6_Witness ==
    /\ called = "parse_request"
    /\ outcome.kind = "return"
    /\ DOMAIN request.headers = {}
    /\ "QUERY_STRING" \notin DOMAIN request.META
    /\ outcome.value.http_user_agent = ""
    /\ outcome.value.http_referer = ""
    /\ outcome.value.query_string = ""

\* The record that create_log returned is the row the table holds under its id
Persisted(rec) == rec.id \in 1..Len(db) /\ db[rec.id] = rec

\* C7: the record create_log returns is the persisted one, its category and
\* label are the arguments ("" for one omitted) and each of its eight request
\* fields is what the RequestParser property of that name yields for the
\* request; create_log raises only a storage error or what a property raised.
C7_RecordEchoesRequestAndArguments ==
    /\ (pc = "idle" /\ result.kind = "return")
        => LET rec == result.value
           IN  /\ Persisted(rec)
               /\ rec.category = (IF args.category = {} THEN "" ELSE The(args.category))
               /\ rec.label = (IF args.label = {} THEN "" ELSE The(args.label))
               /\ \A i \in 1..Len(ParserOrder) :
                    /\ Apply(ParserOrder[i], request).kind = "return"
                    /\ rec[ParserOrder[i]] = Apply(ParserOrder[i], request).value
    /\ (pc = "idle" /\ result.kind = "raise")
        => \/ result.exc \in StorageErrors
           \/ \E i \in 1..Len(ParserOrder) :
                Apply(ParserOrder[i], request) = result

\* The authenticated request behind two proxies, logged with a category only
C7_Witness ==
    /\ pc = "idle"
    /\ result.kind = "return"
    /\ args = [category |-> {"foo"}, label |-> {}]
    /\ result.value.category = "foo"
    /\ result.value.label = ""
    /\ result.value.user = "alice"
    /\ result.value.session_key = "fake_session"
    /\ result.value.http_method = "POST"
    /\ result.value.http_user_agent = "Mozilla/5.0"
    /\ result.value.http_referer = "google.com"
    /\ result.value.query_string = "a=b"
    /\ result.value.remote_addr = <<"1">>

\* C8: a record's timestamp is the time create_log was entered, where the
\* record is constructed, and parse_request, the write and a repeated write
\* leave it so: in the instance, in the returned record and in its row.
C8_TimestampIsCallTime ==
    /\ pc # "idle" => log.timestamp = callTime
    /\ (pc = "idle" /\ result.kind = "return")
        => /\ result.value.timestamp = callTime
           /\ db[result.value.id].timestamp = callTime

\* A record written after the clock moved on, and time passing since
C8_Witness ==
    /\ pc = "idle"
    /\ result.kind = "return"
    /\ Len(writes) = 1
    /\ writes[1].at > callTime
    /\ clock > writes[1].at
    /\ db[result.value.id].timestamp = callTime

\* Two rows agree on every field that is taken from the request or the arguments
SameFields(a, b) ==
    \A f \in DOMAIN a \ {"id", "timestamp"} : a[f] = b[f]

\* C9: a create_log call that returns made one storage write, which inserted
\* one row and changed no row stored before; n returned calls leave n rows; and
\* two calls with the same request and arguments leave two rows with the same
\* field values and different ids.
C9_OneInsertPerCall ==
    /\ Len(db) = returned
    /\ Len(origin) = Len(db)
    /\ \A i \in 1..Len(before) : i <= Len(db) /\ db[i] = before[i]
    /\ (pc = "idle" /\ result.kind = "return")
        => /\ Len(writes) = 1
           /\ Len(db) = Len(before) + 1
           /\ db[Len(db)] = result.value
    /\ \A i, j \in 1..Len(db) :
        i # j => /\ db[i].id # db[j].id
                 /\ origin[i] = origin[j] => SameFields(db[i], db[j])

\* The same request logged twice at the same instant: two rows
C9_Witness ==
    /\ Len(db) = 2
    /\ returned = 2
    /\ origin[1] = origin[2]
    /\ db[1].timestamp = db[2].timestamp
    /\ db[1].id # db[2].id
    /\ SameFields(db[1], db[2])

\* C10: when the storage write fails, create_log raises the storage's own
\* exception, returns no record, has attempted the write once only, and the
\* table is as it was when create_log was entered.
C10_WriteFailurePropagates ==
    (pc = "idle" /\ Len(writes) > 0 /\ writes[Len(writes)].fault # "ok")
        => /\ result = Raise(writes[1].fault)
           /\ Len(writes) = 1
           /\ db = before

\* A failed write with a row already in the table
C10_Witness ==
    /\ pc = "idle"
    /\ writes = <<[at |-> clock, fault |-> "OperationalError"]>>
    /\ result = Raise("OperationalError")
    /\ Len(db) = 1
    /\ db = before
====
